---- MODULE Spec2Model ----
(***************************************************************************)
(* Micro-frontend toolkit: the shell's MFE registry, configuration         *)
(* validation, dynamic remote loader, application setup and the shared     *)
(* event bus, as state machines.                                           *)
(***************************************************************************)
EXTENDS Integers, Sequences, FiniteSets, TLC

VARIABLES
  registry,      \* the MFERegistry singleton: registeredMFEs (Map), loadedRemotes (Set)
  lastCall,      \* history: the registry method called last, with its argument
  everRegistered,\* history: the remote names register was ever called with
  validation,    \* validateMFEConfig: its argument and, once it returned, its result
  browser,       \* the page: window globals, scripts appended to document.head,
                 \* the promises loadRemoteModule returned, the container.init calls
  setup,         \* setupApp: the fetched configurations, its position, the configs
                 \* it registered, its preload tasks and its return value
  events,        \* the EventBus singleton's Map: event name -> array of callbacks
  subscriptions, \* history: per (event name, callback), how often on was called
                 \* and whether the unsubscribe function it returned was called
  busCall,       \* history: the EventBus call made last and what it did
  lazy,          \* the loaders lazyLoadRemote built, one per route rendered
  app,           \* the guide's App component: its appReady and error state
  page,          \* the shell container: location, the import of authMfe/SignIn
                 \* and what the /auth page shows
  widget,        \* an MFEComponentLoader instance: its props, its state and the
                 \* loadComponent calls its effect has started
  notifications  \* GlobalContextProvider: the notifications array and the clock

registryVars == <<registry, lastCall, everRegistered>>
busVars == <<events, subscriptions, busCall>>
shellVars == <<lazy, app, page>>
uiVars == <<widget, notifications>>
vars == <<registry, lastCall, everRegistered, validation, browser, setup,
          events, subscriptions, busCall, lazy, app, page, widget, notifications>>

(***************************************************************************)
(* Bounds of the model.                                                    *)
(***************************************************************************)
MaxRoutes == 2      \* longest routes list of a configuration
MaxLoads == 3       \* calls of loadRemoteModule in one run
MaxConfigs == 2     \* entries of microFrontends in the fetched config.json
MaxSubscriptions == 3 \* calls of EventBus.on in one run
MaxHistory == 2      \* history entries kept behind the current location
MaxRuns == 2         \* loadComponent calls of one MFEComponentLoader
MaxNotifications == 3 \* notifications held at once
MaxClock == 2       \* last value of Date.now(), counted from 0

(***************************************************************************)
(* JavaScript values.  A configuration object is a record whose field      *)
(* "present" lists the properties the object has; a property that is not   *)
(* present reads as undefined.                                             *)
(***************************************************************************)
undefined == "undefined"
null == [null |-> TRUE]

StringFields == {"name", "remoteName", "url"}
NumberFields == {"port"}
ArrayFields == {"routes", "exposedComponents"}
BooleanFields == {"enabled", "preload"}
Fields == StringFields \cup NumberFields \cup ArrayFields \cup BooleanFields

Has(c, f) == f \in c.present

\* c[f] for a string property
Str(c, f) == IF Has(c, f) THEN c[f] ELSE undefined

\* truthiness where an empty array counts as falsy
Truthy_EmptyArrayFalsy(c, f) ==
  /\ Has(c, f)
  /\ f \in StringFields => c[f] # ""
  /\ f \in NumberFields => c[f] # 0
  /\ f \in BooleanFields => c[f]
  /\ f \in ArrayFields => c[f] # <<>>

\* !!c[f]: undefined, "", 0 and false are falsy, every array (the empty one
\* too) is truthy
Truthy(c, f) ==
  /\ Has(c, f)
  /\ f \in StringFields => c[f] # ""
  /\ f \in NumberFields => c[f] # 0
  /\ f \in BooleanFields => c[f]

\* c[f] || [] for an array property
ArrayOrEmpty(c, f) == IF Truthy(c, f) THEN c[f] ELSE <<>>

SeqsUpTo(S, n) == UNION {[1..k -> S] : k \in 0..n}

(***************************************************************************)
(* A JavaScript Map: a sequence of entries [key, value] in insertion       *)
(* order; setting an existing key keeps its position.                      *)
(***************************************************************************)
MapKeys(m) == {m[i].key : i \in 1..Len(m)}
MapHas(m, k) == k \in MapKeys(m)
MapIndex(m, k) == CHOOSE i \in 1..Len(m) : m[i].key = k
MapGet(m, k) == m[MapIndex(m, k)].value
\* a Map whose set moves an existing key to the end
MapSet_MoveToEnd(m, k, v) ==
  Append(SelectSeq(m, LAMBDA entry : entry.key # k), [key |-> k, value |-> v])

MapSet(m, k, v) ==
  IF MapHas(m, k)
  THEN [m EXCEPT ![MapIndex(m, k)] = [key |-> k, value |-> v]]
  ELSE Append(m, [key |-> k, value |-> v])

(***************************************************************************)
(* The data of the example configuration file.                             *)
(***************************************************************************)
RemoteNames == {"authMfe", "paymentsMfe"}
Urls == {"http://localhost:5177", "http://localhost:5178"}
MFERoutes(remoteName) ==
  IF remoteName = "authMfe"
  THEN {[path |-> "/auth", modulePath |-> "SignIn"],
        [path |-> "/signup", modulePath |-> "SignUp"]}
  ELSE {[path |-> "/payments", modulePath |-> "PaymentApp"]}
ExposedComponents == {[name |-> "SignIn", modulePath |-> "SignIn"]}

\* a configuration object with the properties "present", valued as in v
Blank == [name |-> "", remoteName |-> "", url |-> "", port |-> 0,
          routes |-> <<>>, exposedComponents |-> <<>>,
          enabled |-> FALSE, preload |-> FALSE]
MkConfig(present, v) ==
  [f \in Fields \cup {"present"} |->
     IF f = "present" THEN present ELSE IF f \in present THEN v[f] ELSE Blank[f]]

(***************************************************************************)
(* configService: validateMFEConfig                                        *)
(***************************************************************************)
requiredFields == <<"name", "remoteName", "url", "routes">>

\* Array.prototype.every
RECURSIVE Every(_, _)
Every(fields, c) ==
  IF fields = <<>> THEN TRUE
  ELSE IF ~Truthy(c, Head(fields)) THEN FALSE
  ELSE Every(Tail(fields), c)

validateMFEConfig(mfeConfig) == Every(requiredFields, mfeConfig)

(***************************************************************************)
(* MFERegistry                                                             *)
(***************************************************************************)
EmptyRegistry == [registeredMFEs |-> <<>>, loadedRemotes |-> {}]

\* register taking exposedComponents from the routes property
RegisteredMFE_CopyPaste(c) ==
  [url |-> Str(c, "url"),
   routes |-> ArrayOrEmpty(c, "routes"),
   exposedComponents |-> ArrayOrEmpty(c, "routes"),
   loaded |-> FALSE]

\* the descriptor register builds from a configuration
RegisteredMFE(c) ==
  [url |-> Str(c, "url"),
   routes |-> ArrayOrEmpty(c, "routes"),
   exposedComponents |-> ArrayOrEmpty(c, "exposedComponents"),
   loaded |-> FALSE]

register(r, c) ==
  [r EXCEPT !.registeredMFEs = MapSet(@, Str(c, "remoteName"), RegisteredMFE(c))]

get(r, remoteName) ==
  IF MapHas(r.registeredMFEs, remoteName)
  THEN MapGet(r.registeredMFEs, remoteName)
  ELSE null

getAll(r) ==
  [i \in 1..Len(r.registeredMFEs) |->
     [name |-> r.registeredMFEs[i].key,
      url |-> r.registeredMFEs[i].value.url,
      routes |-> r.registeredMFEs[i].value.routes,
      exposedComponents |-> r.registeredMFEs[i].value.exposedComponents,
      loaded |-> r.registeredMFEs[i].value.loaded]]

\* markAsLoaded adding the name to loadedRemotes without the "if (mfe)"
markAsLoaded_NoGuard(r, remoteName) ==
  IF get(r, remoteName) # null
  THEN [registeredMFEs |->
          MapSet(r.registeredMFEs, remoteName,
                 [get(r, remoteName) EXCEPT !.loaded = TRUE]),
        loadedRemotes |-> r.loadedRemotes \cup {remoteName}]
  ELSE [r EXCEPT !.loadedRemotes = @ \cup {remoteName}]

markAsLoaded(r, remoteName) ==
  IF get(r, remoteName) # null
  THEN [registeredMFEs |->
          MapSet(r.registeredMFEs, remoteName,
                 [get(r, remoteName) EXCEPT !.loaded = TRUE]),
        loadedRemotes |-> r.loadedRemotes \cup {remoteName}]
  ELSE r

isLoaded(r, remoteName) == remoteName \in r.loadedRemotes

\* routes.unshift in place of routes.push
RECURSIVE PushRoutes_Unshift(_, _, _, _)
PushRoutes_Unshift(routes, configRoutes, remoteName, url) ==
  IF configRoutes = <<>> THEN routes
  ELSE PushRoutes_Unshift(<<[path |-> Head(configRoutes).path,
                            modulePath |-> Head(configRoutes).modulePath,
                            remoteName |-> remoteName,
                            url |-> url]>> \o routes,
                          Tail(configRoutes), remoteName, url)

\* config.routes.forEach(route => routes.push({...route, remoteName, url}))
RECURSIVE PushRoutes(_, _, _, _)
PushRoutes(routes, configRoutes, remoteName, url) ==
  IF configRoutes = <<>> THEN routes
  ELSE PushRoutes(Append(routes, [path |-> Head(configRoutes).path,
                                  modulePath |-> Head(configRoutes).modulePath,
                                  remoteName |-> remoteName,
                                  url |-> url]),
                  Tail(configRoutes), remoteName, url)

\* registeredMFEs.forEach((config, remoteName) => ...)
RECURSIVE ForEachMFE(_, _)
ForEachMFE(routes, entries) ==
  IF entries = <<>> THEN routes
  ELSE ForEachMFE(PushRoutes(routes, Head(entries).value.routes,
                             Head(entries).key, Head(entries).value.url),
                  Tail(entries))

getAllRoutes(r) == ForEachMFE(<<>>, r.registeredMFEs)

(***************************************************************************)
(* dynamicRemoteLoader: loadRemoteModule.  A container is named by the     *)
(* position in document.head of the script that defined it; 0 stands for   *)
(* an undefined global.  A promise counts the resolve and reject calls     *)
(* made on it; only the first one settles it.                              *)
(***************************************************************************)
FreshPage ==
  [window |-> [n \in RemoteNames |-> 0],
   head |-> <<>>,
   promises |-> <<>>,
   initCalls |-> [n \in RemoteNames |-> 0]]

NewPromise(remoteName, remoteUrl) ==
  [remoteName |-> remoteName, remoteUrl |-> remoteUrl, state |-> "pending",
   value |-> 0, reason |-> "", calls |-> 0, script |-> 0]

resolve(promise, value) ==
  IF promise.state = "pending"
  THEN [promise EXCEPT !.state = "fulfilled", !.value = value, !.calls = @ + 1]
  ELSE [promise EXCEPT !.calls = @ + 1]

reject(promise, reason) ==
  IF promise.state = "pending"
  THEN [promise EXCEPT !.state = "rejected", !.reason = reason, !.calls = @ + 1]
  ELSE [promise EXCEPT !.calls = @ + 1]

RemoteEntry == "/remoteEntry.js"

\* remoteUrl.endsWith('/remoteEntry.js'), over the urls of the model
EndsWithRemoteEntry(remoteUrl) == \E u \in Urls : remoteUrl = u \o RemoteEntry

ScriptSrc(remoteUrl) ==
  IF EndsWithRemoteEntry(remoteUrl) THEN remoteUrl ELSE remoteUrl \o RemoteEntry

\* loadRemoteModule without the "already loaded" check
loadRemoteModule_NoCheck(b, remoteName, remoteUrl) ==
  [b EXCEPT
     !.head = Append(@, [remoteName |-> remoteName, src |-> ScriptSrc(remoteUrl),
                         event |-> "none", container |-> 0,
                         promise |-> Len(b.promises) + 1]),
     !.promises = Append(@, [NewPromise(remoteName, remoteUrl)
                               EXCEPT !.script = Len(b.head) + 1])]

\* the synchronous body of the promise executor; the promise returned is the
\* last one of the result's promises
loadRemoteModule(b, remoteName, remoteUrl) ==
  IF b.window[remoteName] # 0
  THEN [b EXCEPT !.promises =
          Append(@, resolve(NewPromise(remoteName, remoteUrl), b.window[remoteName]))]
  ELSE [b EXCEPT
          !.head = Append(@, [remoteName |-> remoteName, src |-> ScriptSrc(remoteUrl),
                              event |-> "none", container |-> 0,
                              promise |-> Len(b.promises) + 1]),
          !.promises = Append(@, [NewPromise(remoteName, remoteUrl)
                                    EXCEPT !.script = Len(b.head) + 1])]

\* script.onload returning without a reject when the global is missing
onload_NoReject(b, s) ==
  LET remoteName == b.head[s].remoteName
      container == b.window[remoteName]
      p == b.head[s].promise
  IN IF container = 0
     THEN [b EXCEPT !.head[s].event = "load"]
     ELSE [b EXCEPT !.head[s].event = "load",
                    !.initCalls[remoteName] = @ + 1,
                    !.promises[p] = resolve(@, container)]

\* script.onload, run on the window the evaluated script left behind
onload(b, s) ==
  LET remoteName == b.head[s].remoteName
      container == b.window[remoteName]
      p == b.head[s].promise
  IN IF container = 0
     THEN [b EXCEPT !.head[s].event = "load",
                    !.promises[p] = reject(@, "Remote " \o remoteName \o " not found")]
     ELSE [b EXCEPT !.head[s].event = "load",
                    !.initCalls[remoteName] = @ + 1,
                    !.promises[p] = resolve(@, container)]

\* script.onerror
onerror(b, s) ==
  LET p == b.head[s].promise
  IN [b EXCEPT !.head[s].event = "error",
               !.promises[p] =
                 reject(@, "Failed to load remote: " \o b.head[s].remoteName
                             \o " from " \o b.promises[p].remoteUrl)]

\* the browser evaluates script s, which sets (or does not set) the global
\* named after the remote; the script element keeps what the global was when
\* its load event fired
Evaluate(b, s, defines) ==
  LET remoteName == b.head[s].remoteName
  IN IF defines
     THEN [b EXCEPT !.window[remoteName] = s, !.head[s].container = s]
     ELSE [b EXCEPT !.head[s].container = b.window[remoteName]]

(***************************************************************************)
(* setupApp.  Its body runs in one piece once fetchMFEConfig has resolved: *)
(* filter, register, and the synchronous part of every preload.  A preload *)
(* task then waits for its promise; the continuations of settled promises  *)
(* run as microtasks of the handler that settled them.                     *)
(***************************************************************************)
NoSetup ==
  [pc |-> "idle", mfeConfigs |-> <<>>, registered |-> <<>>, tasks |-> <<>>,
   result |-> [success |-> FALSE, error |-> ""]]

Indices(seq) == [i \in 1..Len(seq) |-> i]

\* config.enabled === true in place of config.enabled !== false
isEnabled_StrictTrue(config) == Has(config, "enabled") /\ config.enabled

\* config.enabled !== false
isEnabled(config) == ~(Has(config, "enabled") /\ config.enabled = FALSE)

\* c.preload === true
isCritical(config) == Has(config, "preload") /\ config.preload

\* validConfigs.forEach(config => MFERegistry.register(config))
RECURSIVE RegisterAll(_, _, _)
RegisterAll(r, configs, idx) ==
  IF idx = <<>> THEN r
  ELSE RegisterAll(register(r, configs[Head(idx)]), configs, Tail(idx))

\* criticalMFEs.map(async config => { await loadRemoteModule(...) ... }) up to
\* the await of each task
RECURSIVE StartPreloads(_, _, _, _)
StartPreloads(b, tasks, configs, idx) ==
  IF idx = <<>> THEN [browser |-> b, tasks |-> tasks]
  ELSE LET config == configs[Head(idx)]
           b1 == loadRemoteModule(b, config.remoteName, config.url)
       IN StartPreloads(b1,
                        Append(tasks, [config |-> Head(idx),
                                       remoteName |-> config.remoteName,
                                       promise |-> Len(b1.promises),
                                       state |-> "awaiting"]),
                        configs, Tail(idx))

\* preload tasks that mark their remote as loaded whatever the load did
RECURSIVE Continue_MarkAlways(_, _, _, _)
Continue_MarkAlways(r, tasks, b, t) ==
  IF t > Len(tasks) THEN [registry |-> r, tasks |-> tasks]
  ELSE LET promise == b.promises[tasks[t].promise]
       IN IF tasks[t].state # "awaiting" \/ promise.state = "pending"
          THEN Continue_MarkAlways(r, tasks, b, t + 1)
          ELSE Continue_MarkAlways(markAsLoaded(r, tasks[t].remoteName),
                                   [tasks EXCEPT ![t].state =
                                      IF promise.state = "fulfilled"
                                      THEN "loaded" ELSE "failed"],
                                   b, t + 1)

\* the continuation of every preload task whose promise has settled:
\* markAsLoaded after a fulfilled load, the catch block after a rejected one
RECURSIVE Continue(_, _, _, _)
Continue(r, tasks, b, t) ==
  IF t > Len(tasks) THEN [registry |-> r, tasks |-> tasks]
  ELSE LET promise == b.promises[tasks[t].promise]
       IN IF tasks[t].state # "awaiting" \/ promise.state = "pending"
          THEN Continue(r, tasks, b, t + 1)
          ELSE IF promise.state = "fulfilled"
          THEN Continue(markAsLoaded(r, tasks[t].remoteName),
                        [tasks EXCEPT ![t].state = "loaded"], b, t + 1)
          ELSE Continue(r, [tasks EXCEPT ![t].state = "failed"], b, t + 1)

\* the preload tasks without their try/catch: the first rejected load
\* rejects Promise.all and the outer catch returns success: false
Microtasks_NoCatch(r, b, su) ==
  LET done == Continue(r, su.tasks, b, 1)
      settled == \A t \in 1..Len(done.tasks) : done.tasks[t].state # "awaiting"
      failed == \E t \in 1..Len(done.tasks) : done.tasks[t].state = "failed"
  IN [registry |-> done.registry,
      browser |-> b,
      setup |->
        IF su.pc = "preloading" /\ failed
        THEN [su EXCEPT !.tasks = done.tasks, !.pc = "returned",
                        !.result = [success |-> FALSE, error |-> "Failed to load"]]
        ELSE IF su.pc = "preloading" /\ settled
        THEN [su EXCEPT !.tasks = done.tasks, !.pc = "returned",
                        !.result = [success |-> TRUE,
                                    registeredMFEs |-> getAll(done.registry)]]
        ELSE [su EXCEPT !.tasks = done.tasks]]

\* Promise.race in place of Promise.all: setupApp returns when the first
\* preload has settled
Microtasks_Race(r, b, su) ==
  LET done == Continue(r, su.tasks, b, 1)
      settled == \/ done.tasks = <<>>
                 \/ \E t \in 1..Len(done.tasks) : done.tasks[t].state # "awaiting"
  IN [registry |-> done.registry,
      browser |-> b,
      setup |->
        IF su.pc = "preloading" /\ settled
        THEN [su EXCEPT !.tasks = done.tasks, !.pc = "returned",
                        !.result = [success |-> TRUE,
                                    registeredMFEs |-> getAll(done.registry)]]
        ELSE [su EXCEPT !.tasks = done.tasks]]

\* the microtasks that follow a handler: preload continuations, then the
\* return of setupApp when Promise.all has resolved
Microtasks(r, b, su) ==
  LET done == Continue(r, su.tasks, b, 1)
      settled == \A t \in 1..Len(done.tasks) : done.tasks[t].state # "awaiting"
  IN [registry |-> done.registry,
      browser |-> b,
      setup |->
        IF su.pc = "preloading" /\ settled
        THEN [su EXCEPT !.tasks = done.tasks, !.pc = "returned",
                        !.result = [success |-> TRUE,
                                    registeredMFEs |-> getAll(done.registry)]]
        ELSE [su EXCEPT !.tasks = done.tasks]]

\* setupApp registering each config as it is validated: the entries before
\* a null entry are registered when validateMFEConfig throws
setupApp_RegisterWhileFiltering(r, b, su) ==
  LET mfeConfigs == su.mfeConfigs
      nulls == {i \in 1..Len(mfeConfigs) : mfeConfigs[i] = null}
      firstNull == IF nulls = {} THEN Len(mfeConfigs) + 1
                   ELSE CHOOSE i \in nulls : \A j \in nulls : i <= j
      validConfigs ==
        SelectSeq(Indices(SubSeq(mfeConfigs, 1, firstNull - 1)),
                  LAMBDA i : validateMFEConfig(mfeConfigs[i])
                               /\ isEnabled(mfeConfigs[i]))
  IN IF nulls # {}
     THEN [registry |-> RegisterAll(r, mfeConfigs, validConfigs), browser |-> b,
           setup |-> [su EXCEPT !.pc = "returned",
                                !.result = [success |-> FALSE, error |-> "TypeError"]]]
     ELSE LET criticalMFEs ==
                SelectSeq(validConfigs, LAMBDA i : isCritical(mfeConfigs[i]))
              started == StartPreloads(b, <<>>, mfeConfigs, criticalMFEs)
          IN Microtasks(RegisterAll(r, mfeConfigs, validConfigs),
                        started.browser,
                        [su EXCEPT !.pc = "preloading",
                                   !.registered = validConfigs,
                                   !.tasks = started.tasks])

\* the body of setupApp after "await fetchMFEConfig()"
setupApp(r, b, su) ==
  LET mfeConfigs == su.mfeConfigs
  IN IF \E i \in 1..Len(mfeConfigs) : mfeConfigs[i] = null
     THEN \* validateMFEConfig(null) throws; the outer catch returns
          [registry |-> r, browser |-> b,
           setup |-> [su EXCEPT !.pc = "returned",
                                !.result = [success |-> FALSE, error |-> "TypeError"]]]
     ELSE LET validConfigs ==
                SelectSeq(Indices(mfeConfigs),
                          LAMBDA i : validateMFEConfig(mfeConfigs[i])
                                       /\ isEnabled(mfeConfigs[i]))
              criticalMFEs ==
                SelectSeq(validConfigs, LAMBDA i : isCritical(mfeConfigs[i]))
              started == StartPreloads(b, <<>>, mfeConfigs, criticalMFEs)
          IN Microtasks(RegisterAll(r, mfeConfigs, validConfigs),
                        started.browser,
                        [su EXCEPT !.pc = "preloading",
                                   !.registered = validConfigs,
                                   !.tasks = started.tasks])

(***************************************************************************)
(* EventBus.  A callback is a function of the subscriber; the model has    *)
(* one that returns, one that throws and one that calls the unsubscribe    *)
(* function of its own subscription (a handler that listens once).         *)
(***************************************************************************)
EventNames == {"payment:completed", "order:created"}
Callbacks == {"handler", "thrower", "once"}
EventData == {"paid", "refunded"}

MapDelete(m, k) == SelectSeq(m, LAMBDA entry : entry.key # k)

\* Array.prototype.indexOf: the first position (from 0) of item, or -1
IndexOf(array, item) ==
  IF \E i \in 1..Len(array) : array[i] = item
  THEN (CHOOSE i \in 1..Len(array) :
          array[i] = item /\ \A j \in 1..(i - 1) : array[j] # item) - 1
  ELSE -1

\* array.splice(index, 1)
Splice(array, index) ==
  [i \in 1..(Len(array) - 1) |-> IF i <= index THEN array[i] ELSE array[i + 1]]

on(ev, eventName, callback) ==
  LET created == IF MapHas(ev, eventName) THEN ev ELSE MapSet(ev, eventName, <<>>)
  IN MapSet(created, eventName, Append(MapGet(created, eventName), callback))

\* the function on returns; "threw" when events.get(eventName) is undefined
unsubscribe(ev, eventName, callback) ==
  IF ~MapHas(ev, eventName)
  THEN [events |-> ev, threw |-> TRUE]
  ELSE LET callbacks == MapGet(ev, eventName)
           index == IndexOf(callbacks, callback)
       IN IF index > -1
          THEN [events |-> MapSet(ev, eventName, Splice(callbacks, index)),
                threw |-> FALSE]
          ELSE [events |-> ev, threw |-> FALSE]

\* callback(data)
Invoke(ev, eventName, callback) ==
  IF callback = "thrower" THEN [events |-> ev, threw |-> TRUE]
  ELSE IF callback = "once" THEN unsubscribe(ev, eventName, callback)
  ELSE [events |-> ev, threw |-> FALSE]

\* array.forEach(callback => { try { callback(data) } catch { ... } }) from
\* position k (from 1): the length is read once, the elements as they are
\* when their position is reached
RECURSIVE ForEachCallback(_, _, _, _, _, _)
ForEachCallback(ev, eventName, data, k, len, done) ==
  IF k > len THEN [events |-> ev, calls |-> done.calls, caught |-> done.caught,
                   threw |-> FALSE]
  ELSE LET array == MapGet(ev, eventName)
       IN IF k > Len(array)
          THEN ForEachCallback(ev, eventName, data, k + 1, len, done)
          ELSE LET out == Invoke(ev, eventName, array[k])
               IN ForEachCallback(out.events, eventName, data, k + 1, len,
                     [calls |-> Append(done.calls,
                                       [callback |-> array[k], data |-> data]),
                      caught |-> done.caught + IF out.threw THEN 1 ELSE 0])

emit(ev, eventName, data) ==
  IF ~MapHas(ev, eventName)
  THEN [events |-> ev, calls |-> <<>>, caught |-> 0, threw |-> FALSE]
  ELSE ForEachCallback(ev, eventName, data, 1, Len(MapGet(ev, eventName)),
                       [calls |-> <<>>, caught |-> 0])

\* a variant of off that empties the whole map
off_DeleteAll(ev, eventName) == <<>>

off(ev, eventName) == MapDelete(ev, eventName)

clear(ev) == <<>>

(***************************************************************************)
(* The shell container: BrowserRouter, Layout with the navbar, the routes  *)
(* of App.tsx and the /auth page with its lazily imported SignIn.          *)
(***************************************************************************)
\* the "to" of the navbar's Link elements
NavLinks == {"/", "/auth", "/payments", "/orders", "/profile"}

\* locations a user may open; "/auth/" differs from a route path by a
\* trailing slash only
Paths == NavLinks \cup {"/auth/", "/signup", "/auth/reset", "/settings"}

\* matchPath ignores one trailing slash
Normalize(path) == IF path = "/auth/" THEN "/auth" ELSE path

\* a route table without the /profile route
MatchRoute_NoProfile(path) ==
  LET pathname == Normalize(path)
  IN IF pathname = "/" THEN "Home"
     ELSE IF pathname = "/auth" THEN "AuthPage"
     ELSE IF pathname = "/payments" THEN "Payments"
     ELSE IF pathname = "/orders" THEN "Orders"
     ELSE "NotFound"

\* <Routes>: the child route of "/" that matches the location
MatchRoute(path) ==
  LET pathname == Normalize(path)
  IN IF pathname = "/" THEN "Home"
     ELSE IF pathname = "/auth" THEN "AuthPage"
     ELSE IF pathname = "/payments" THEN "Payments"
     ELSE IF pathname = "/orders" THEN "Orders"
     ELSE IF pathname = "/profile" THEN "Profile"
     ELSE "NotFound"

\* AuthPage without Suspense: the component is put on screen at once
RenderAuthPage_NoSuspense(pg) ==
  IF pg.import = "idle" THEN [pg EXCEPT !.import = "pending", !.shown = "SignIn"]
  ELSE IF pg.import = "rejected"
  THEN [pg EXCEPT !.shown = "nothing", !.layout = FALSE, !.crashed = TRUE]
  ELSE [pg EXCEPT !.shown = "SignIn"]

\* AuthPage: <Suspense fallback={spinner}><RemoteSignIn /></Suspense>.
\* React.lazy starts the import at the first render and throws the pending
\* promise to Suspense; a rejected import is thrown as an error, and an
\* error no boundary catches unmounts the whole root.
RenderAuthPage(pg) ==
  IF pg.import = "idle" THEN [pg EXCEPT !.import = "pending", !.shown = "Spinner"]
  ELSE IF pg.import = "pending" THEN [pg EXCEPT !.shown = "Spinner"]
  ELSE IF pg.import = "resolved" THEN [pg EXCEPT !.shown = "SignIn"]
  ELSE [pg EXCEPT !.shown = "nothing", !.layout = FALSE, !.crashed = TRUE]

\* App renders Layout and, in its Outlet, the matched route's element
Render(pg) ==
  IF pg.crashed THEN pg
  ELSE IF MatchRoute(pg.location) = "AuthPage" THEN RenderAuthPage(pg)
  ELSE [pg EXCEPT !.shown = MatchRoute(pg.location)]

\* the page after the document was loaded at path
LoadedAt(path) ==
  Render([location |-> path, import |-> "idle", shown |-> "nothing",
          layout |-> TRUE, crashed |-> FALSE, linksOnly |-> TRUE,
          stack |-> <<>>])

\* no MFEComponentLoader mounted, no notification added
IdleUi ==
  /\ widget = [mounted |-> FALSE]
  /\ notifications = [list |-> <<>>, now |-> 0]

\* nothing rendered yet
IdleShell ==
  /\ lazy = <<>>
  /\ app = [appReady |-> FALSE, error |-> null]
  /\ page = LoadedAt("/")

IdleBus ==
  /\ events = <<>>
  /\ subscriptions = [s \in EventNames \X Callbacks |->
                        [count |-> 0, unsubscribed |-> FALSE, called |-> <<>>]]
  /\ busCall = [op |-> "none"]

(***************************************************************************)
(* The registry under arbitrary calls of register and markAsLoaded.        *)
(***************************************************************************)
\* configurations handed to register: remoteName and url given, the two
\* lists given or left out
RegisterInputs ==
  UNION {{MkConfig({"name", "remoteName", "url"} \cup opt,
                   [Blank EXCEPT !.name = "MFE", !.remoteName = n, !.url = u,
                                 !.routes = rs, !.exposedComponents = es]) :
            opt \in SUBSET {"routes", "exposedComponents"},
            u \in Urls,
            rs \in SeqsUpTo(MFERoutes(n), MaxRoutes),
            es \in SeqsUpTo(ExposedComponents, 1)} : n \in RemoteNames}

NoCall == [op |-> "none"]

IdleRegistry ==
  /\ registry = EmptyRegistry
  /\ lastCall = NoCall
  /\ everRegistered = {}

NotValidating == validation = [called |-> FALSE, mfeConfig |-> Blank]

InitRegistry ==
  /\ IdleRegistry
  /\ NotValidating
  /\ browser = FreshPage
  /\ setup = NoSetup
  /\ IdleBus
  /\ IdleShell
  /\ IdleUi

Register(c) ==
  /\ registry' = register(registry, c)
  /\ lastCall' = [op |-> "register", config |-> c]
  /\ everRegistered' = everRegistered \cup {Str(c, "remoteName")}
  /\ UNCHANGED <<validation, browser, setup, busVars, shellVars, uiVars>>

MarkAsLoaded(n) ==
  /\ registry' = markAsLoaded(registry, n)
  /\ lastCall' = [op |-> "markAsLoaded", remoteName |-> n]
  /\ UNCHANGED <<everRegistered, validation, browser, setup, busVars, shellVars, uiVars>>

NextRegistry ==
  \/ \E c \in RegisterInputs : Register(c)
  \/ \E n \in RemoteNames : MarkAsLoaded(n)

SpecRegistry == InitRegistry /\ [][NextRegistry]_vars

\* C1: in every sequence of register and markAsLoaded calls the loaded flag
\* of a remote's descriptor, once true, never returns to false.
C1_LoadedNeverReset ==
  [][\A n \in RemoteNames :
       (get(registry, n) # null /\ get(registry, n).loaded)
         => (get(registry', n) # null /\ get(registry', n).loaded)]_vars

\* C6: right after register(c), get(c.remoteName) is a descriptor with c's
\* url, c's routes and exposedComponents (empty lists when c has none) and
\* loaded = false; get of a name never registered is null.
C6_RegisterThenGet ==
  /\ lastCall.op = "register" =>
       LET c == lastCall.config
           d == get(registry, c.remoteName)
       IN /\ d # null
          /\ d.url = c.url
          /\ d.routes = IF "routes" \in c.present THEN c.routes ELSE <<>>
          /\ d.exposedComponents =
               IF "exposedComponents" \in c.present THEN c.exposedComponents ELSE <<>>
          /\ d.loaded = FALSE
  /\ \A n \in RemoteNames : n \notin everRegistered => get(registry, n) = null

\* a configuration without routes and exposedComponents has just been
\* registered over a descriptor that was marked loaded, while another name
\* was never registered
C6_Witness ==
  /\ lastCall.op = "register"
  /\ lastCall.config.present = {"name", "remoteName", "url"}
  /\ isLoaded(registry, lastCall.config.remoteName)
  /\ get(registry, lastCall.config.remoteName).routes = <<>>
  /\ get(registry, lastCall.config.remoteName).loaded = FALSE
  /\ \E n \in RemoteNames : n \notin everRegistered /\ get(registry, n) = null

\* number of routes of the entries before position i of the map
RECURSIVE RoutesBefore(_, _)
RoutesBefore(m, i) ==
  IF i <= 1 THEN 0 ELSE RoutesBefore(m, i - 1) + Len(m[i - 1].value.routes)

\* C7: getAllRoutes has one entry per (registered remote, route of its list),
\* the route's fields plus the owner's remoteName and url, in registration
\* order and then list order; its length is the sum of the list lengths.
C7_AllRoutes ==
  LET m == registry.registeredMFEs
      all == getAllRoutes(registry)
  IN /\ Len(all) = RoutesBefore(m, Len(m) + 1)
     /\ \A i \in 1..Len(m) : \A j \in 1..Len(m[i].value.routes) :
          all[RoutesBefore(m, i) + j] =
            [path |-> m[i].value.routes[j].path,
             modulePath |-> m[i].value.routes[j].modulePath,
             remoteName |-> m[i].key,
             url |-> m[i].value.url]

\* two remotes with different urls, the first with two different routes
C7_Witness ==
  LET m == registry.registeredMFEs
  IN /\ Len(m) = 2
     /\ m[1].value.url # m[2].value.url
     /\ Len(m[1].value.routes) = 2
     /\ m[1].value.routes[1] # m[1].value.routes[2]
     /\ Len(m[2].value.routes) >= 1
     /\ Len(getAllRoutes(registry)) >= 3


(***************************************************************************)
(* validateMFEConfig applied to one configuration object.                  *)
(***************************************************************************)
\* every property present or not; strings empty or not, port zero or not,
\* routes empty or not, the flags true or false
ValidateInputs ==
  {MkConfig(present,
            [name |-> nm, remoteName |-> rn, url |-> u, port |-> pt,
             routes |-> rs, exposedComponents |-> <<>>,
             enabled |-> en, preload |-> pl]) :
     present \in SUBSET Fields,
     nm \in {"", "Authentication"}, rn \in {"", "authMfe"},
     u \in {"", "http://localhost:5177"}, pt \in {0, 5177},
     rs \in SeqsUpTo(MFERoutes("paymentsMfe"), 1),
     en \in BOOLEAN, pl \in BOOLEAN}

InitValidate ==
  /\ IdleRegistry
  /\ browser = FreshPage
  /\ setup = NoSetup
  /\ IdleBus
  /\ IdleShell
  /\ IdleUi
  /\ \E c \in ValidateInputs : validation = [called |-> FALSE, mfeConfig |-> c]

Validate ==
  /\ ~validation.called
  /\ validation' = [called |-> TRUE, mfeConfig |-> validation.mfeConfig,
                    result |-> validateMFEConfig(validation.mfeConfig)]
  /\ UNCHANGED <<registryVars, browser, setup, busVars, shellVars, uiVars>>

NextValidate == Validate

SpecValidate == InitValidate /\ [][NextValidate]_vars

\* the configurations that agree with c on the four required properties
SameRequired(c) ==
  {d \in ValidateInputs :
     /\ d.present \cap {"name", "remoteName", "url", "routes"}
          = c.present \cap {"name", "remoteName", "url", "routes"}
     /\ d.name = c.name /\ d.remoteName = c.remoteName
     /\ d.url = c.url /\ d.routes = c.routes}

\* C8: validateMFEConfig(c) is true exactly when name, remoteName, url and
\* routes are present and truthy; an empty routes list counts as present and
\* no other property changes the result.
C8_Validate ==
  validation.called =>
    LET c == validation.mfeConfig
    IN /\ validation.result =
            (/\ "name" \in c.present /\ c.name # ""
             /\ "remoteName" \in c.present /\ c.remoteName # ""
             /\ "url" \in c.present /\ c.url # ""
             /\ "routes" \in c.present)
       /\ \A d \in SameRequired(c) : validateMFEConfig(d) = validation.result

\* a configuration with an empty routes list, enabled: false and no port is
\* found valid
C8_Witness ==
  /\ validation.called
  /\ validation.result
  /\ "routes" \in validation.mfeConfig.present
  /\ validation.mfeConfig.routes = <<>>
  /\ "enabled" \in validation.mfeConfig.present
  /\ ~validation.mfeConfig.enabled
  /\ "port" \notin validation.mfeConfig.present

(***************************************************************************)
(* loadRemoteModule under arbitrary calls; every injected script fires     *)
(* load or error once.                                                     *)
(***************************************************************************)
LoaderUrls == {"http://localhost:5177", "http://localhost:5178/remoteEntry.js"}

InitLoader ==
  /\ IdleRegistry
  /\ NotValidating
  /\ browser = FreshPage
  /\ setup = NoSetup
  /\ IdleBus
  /\ IdleShell
  /\ IdleUi

LoadRemoteModule(remoteName, remoteUrl) ==
  /\ Len(browser.promises) < MaxLoads
  /\ browser' = loadRemoteModule(browser, remoteName, remoteUrl)
  /\ UNCHANGED <<registryVars, validation, setup, busVars, shellVars, uiVars>>

ScriptLoad(s, defines) ==
  /\ browser.head[s].event = "none"
  /\ browser' = onload(Evaluate(browser, s, defines), s)
  /\ UNCHANGED <<registryVars, validation, setup, busVars, shellVars, uiVars>>

ScriptError(s) ==
  /\ browser.head[s].event = "none"
  /\ browser' = onerror(browser, s)
  /\ UNCHANGED <<registryVars, validation, setup, busVars, shellVars, uiVars>>

ScriptEvent(s) ==
  \/ \E defines \in BOOLEAN : ScriptLoad(s, defines)
  \/ ScriptError(s)

NextLoader ==
  \/ \E n \in RemoteNames, u \in LoaderUrls : LoadRemoteModule(n, u)
  \/ \E s \in 1..Len(browser.head), defines \in BOOLEAN : ScriptLoad(s, defines)
  \/ \E s \in 1..Len(browser.head) : ScriptError(s)

SpecLoader == InitLoader /\ [][NextLoader]_vars

\* the browser delivers load or error to every script appended to the page
FairSpecLoader ==
  SpecLoader /\ \A s \in 1..MaxLoads : WF_vars(s <= Len(browser.head) /\ ScriptEvent(s))

(***************************************************************************)
(* One run of setupApp on a fresh page, from the arrival of config.json    *)
(* to the return of setupApp.                                              *)
(***************************************************************************)
UrlOf(remoteName) ==
  IF remoteName = "authMfe" THEN "http://localhost:5177" ELSE "http://localhost:5178"

\* the entries of microFrontends: valid or without routes, enabled and
\* preload absent, true or false; or null
SetupConfigs ==
  {MkConfig({"name", "remoteName", "url"} \cup opt,
            [Blank EXCEPT !.name = "MFE", !.remoteName = n, !.url = UrlOf(n),
                          !.enabled = en, !.preload = pl]) :
     opt \in SUBSET {"routes", "enabled", "preload"},
     n \in RemoteNames, en \in BOOLEAN, pl \in BOOLEAN}
  \cup {null}

InitSetup ==
  /\ IdleRegistry
  /\ NotValidating
  /\ browser = FreshPage
  /\ \E configs \in SeqsUpTo(SetupConfigs, MaxConfigs) :
       setup = [NoSetup EXCEPT !.pc = "fetching", !.mfeConfigs = configs]
  /\ IdleBus
  /\ IdleShell
  /\ IdleUi

\* fetchMFEConfig resolves and setupApp runs up to its first pending await
SetupApp ==
  /\ setup.pc = "fetching"
  /\ LET after == setupApp(registry, browser, setup)
     IN /\ registry' = after.registry
        /\ browser' = after.browser
        /\ setup' = after.setup
  /\ UNCHANGED <<lastCall, everRegistered, validation, busVars, shellVars, uiVars>>

\* a preload's script loads; the preload task resumes
PreloadScriptLoad(s, defines) ==
  /\ browser.head[s].event = "none"
  /\ LET after == Microtasks(registry, onload(Evaluate(browser, s, defines), s), setup)
     IN /\ registry' = after.registry
        /\ browser' = after.browser
        /\ setup' = after.setup
  /\ UNCHANGED <<lastCall, everRegistered, validation, busVars, shellVars, uiVars>>

\* a preload's script fails; the preload task's catch block runs
PreloadScriptError(s) ==
  /\ browser.head[s].event = "none"
  /\ LET after == Microtasks(registry, onerror(browser, s), setup)
     IN /\ registry' = after.registry
        /\ browser' = after.browser
        /\ setup' = after.setup
  /\ UNCHANGED <<lastCall, everRegistered, validation, busVars, shellVars, uiVars>>

NextSetup ==
  \/ SetupApp
  \/ \E s \in 1..Len(browser.head), defines \in BOOLEAN : PreloadScriptLoad(s, defines)
  \/ \E s \in 1..Len(browser.head) : PreloadScriptError(s)

SpecSetup == InitSetup /\ [][NextSetup]_vars

\* the entries setupApp is to register: valid and not disabled
Registrable(configs) ==
  {i \in 1..Len(configs) :
     /\ validateMFEConfig(configs[i])
     /\ ~("enabled" \in configs[i].present /\ configs[i].enabled = FALSE)}

Range(seq) == {seq[i] : i \in 1..Len(seq)}

\* C2: after setupApp returned success: true on an empty registry, the
\* registered names are those of the fetched configs that are valid and
\* whose enabled is not false (a config without enabled included); a config
\* with enabled: false is in no state registered or preloaded.
C2_RegisteredAreValidEnabled ==
  /\ (setup.pc = "returned" /\ setup.result.success) =>
       /\ MapKeys(registry.registeredMFEs)
            = {setup.mfeConfigs[i].remoteName : i \in Registrable(setup.mfeConfigs)}
       /\ Range(setup.registered) = Registrable(setup.mfeConfigs)
  /\ \A i \in 1..Len(setup.mfeConfigs) :
       (/\ setup.mfeConfigs[i] # null
        /\ "enabled" \in setup.mfeConfigs[i].present
        /\ setup.mfeConfigs[i].enabled = FALSE)
       => /\ i \notin Range(setup.registered)
          /\ \A t \in 1..Len(setup.tasks) : setup.tasks[t].config # i

\* setupApp returned success with a valid config that has no enabled
\* property registered and a valid config with enabled: false left out
C2_Witness ==
  /\ setup.pc = "returned"
  /\ setup.result.success
  /\ \E i \in Range(setup.registered) : "enabled" \notin setup.mfeConfigs[i].present
  /\ \E i \in 1..Len(setup.mfeConfigs) :
       /\ validateMFEConfig(setup.mfeConfigs[i])
       /\ "enabled" \in setup.mfeConfigs[i].present
       /\ ~setup.mfeConfigs[i].enabled
       /\ isCritical(setup.mfeConfigs[i])
       /\ ~MapHas(registry.registeredMFEs, setup.mfeConfigs[i].remoteName)

Last(seq) == seq[Len(seq)]

(***************************************************************************)
(* The event bus under arbitrary calls of on, the unsubscribe functions,   *)
(* emit, off and clear.                                                    *)
(***************************************************************************)
InitBus ==
  /\ IdleRegistry
  /\ NotValidating
  /\ browser = FreshPage
  /\ setup = NoSetup
  /\ IdleBus
  /\ IdleShell
  /\ IdleUi

RECURSIVE SumCounts(_)
SumCounts(S) ==
  IF S = {} THEN 0
  ELSE LET s == CHOOSE x \in S : TRUE
       IN subscriptions[s].count + SumCounts(S \ {s})

Listeners(ev, eventName) == IF MapHas(ev, eventName) THEN MapGet(ev, eventName) ELSE <<>>

On(eventName, callback) ==
  /\ SumCounts(EventNames \X Callbacks) < MaxSubscriptions
  /\ events' = on(events, eventName, callback)
  /\ subscriptions' = [subscriptions EXCEPT
                         ![<<eventName, callback>>].count = @ + 1,
                         ![<<eventName, callback>>].called = Append(@, FALSE)]
  /\ busCall' = [op |-> "on", eventName |-> eventName, callback |-> callback]
  /\ UNCHANGED <<registryVars, validation, browser, setup, shellVars, uiVars>>

\* a subscriber calls the function that the i-th on(eventName, callback)
\* returned, for the first time or again
Unsubscribe(eventName, callback, i) ==
  /\ i \in 1..subscriptions[<<eventName, callback>>].count
  /\ LET out == unsubscribe(events, eventName, callback)
     IN /\ events' = out.events
        /\ busCall' = [op |-> "unsubscribe", eventName |-> eventName,
                       callback |-> callback, threw |-> out.threw,
                       calledBefore |->
                         subscriptions[<<eventName, callback>>].called[i],
                       removed |-> Len(Listeners(events, eventName))
                                     - Len(Listeners(out.events, eventName))]
  /\ subscriptions' =
       [subscriptions EXCEPT ![<<eventName, callback>>].unsubscribed = TRUE,
                             ![<<eventName, callback>>].called[i] = TRUE]
  /\ UNCHANGED <<registryVars, validation, browser, setup, shellVars, uiVars>>

Emit(eventName, data) ==
  /\ LET out == emit(events, eventName, data)
         ran == {out.calls[i].callback : i \in 1..Len(out.calls)}
     IN /\ events' = out.events
        /\ busCall' = [op |-> "emit", eventName |-> eventName, data |-> data,
                       before |-> Listeners(events, eventName),
                       unsubscribedBefore |->
                         {c \in Callbacks :
                            subscriptions[<<eventName, c>>].unsubscribed},
                       calls |-> out.calls, caught |-> out.caught,
                       threw |-> out.threw]
        /\ subscriptions' =
             [s \in EventNames \X Callbacks |->
                IF s[1] = eventName /\ s[2] = "once" /\ "once" \in ran
                THEN [subscriptions[s] EXCEPT !.unsubscribed = TRUE]
                ELSE subscriptions[s]]
  /\ UNCHANGED <<registryVars, validation, browser, setup, shellVars, uiVars>>

Off(eventName) ==
  /\ events' = off(events, eventName)
  /\ busCall' = [op |-> "off", eventName |-> eventName,
                 removed |-> Listeners(events, eventName)]
  /\ UNCHANGED <<subscriptions, registryVars, validation, browser, setup, shellVars, uiVars>>

Clear ==
  /\ events' = clear(events)
  /\ busCall' = [op |-> "clear"]
  /\ UNCHANGED <<subscriptions, registryVars, validation, browser, setup, shellVars, uiVars>>

NextBus ==
  \/ \E e \in EventNames, c \in Callbacks : On(e, c)
  \/ \E e \in EventNames, c \in Callbacks, i \in 1..MaxSubscriptions :
       Unsubscribe(e, c, i)
  \/ \E e \in EventNames, d \in EventData : Emit(e, d)
  \/ \E e \in EventNames : Off(e)
  \/ Clear

SpecBus == InitBus /\ [][NextBus]_vars

\* C9: once the unsubscribe function of on(eventName, cb) has been called,
\* cb subscribed once, a later emit(eventName) does not invoke cb and
\* invokes every other callback subscribed to eventName.
C9_UnsubscribedNotInvoked ==
  busCall.op = "emit" =>
    \A cb \in busCall.unsubscribedBefore :
      subscriptions[<<busCall.eventName, cb>>].count = 1 =>
        /\ \A i \in 1..Len(busCall.calls) : busCall.calls[i].callback # cb
        /\ \A j \in 1..Len(busCall.before) :
             busCall.before[j] # cb =>
               \E i \in 1..Len(busCall.calls) :
                 busCall.calls[i].callback = busCall.before[j]

\* C10: emit invokes the callbacks subscribed to eventName in subscription
\* order, each with data, also after one of them threw, and does not throw.
C10_EmitInvokesAll ==
  busCall.op = "emit" =>
    /\ ~busCall.threw
    /\ busCall.calls =
         [i \in 1..Len(busCall.before) |->
            [callback |-> busCall.before[i], data |-> busCall.data]]

\* C11: off(eventName) removes every listener of eventName, so that an emit
\* of eventName right after it invokes nothing, and the listeners of every
\* other event name are what they were before the call.
C11_OffRemovesAll ==
  [][\A e \in EventNames :
       (busCall'.op = "off" /\ busCall'.eventName = e /\ busCall' # busCall)
       => (/\ Listeners(events', e) = <<>>
           /\ \A d \in EventData : emit(events', e, d).calls = <<>>
           /\ \A o \in EventNames \ {e} :
                /\ MapHas(events', o) = MapHas(events, o)
                /\ Listeners(events', o) = Listeners(events, o))]_vars

\* off removed two listeners or more while another event name had listeners
C11_Witness ==
  /\ busCall.op = "off"
  /\ Len(busCall.removed) >= 2
  /\ \E o \in EventNames \ {busCall.eventName} : Len(Listeners(events, o)) >= 1

\* C4: loadRemoteModule called while window[remoteName] exists resolves
\* with that container, appends no script and calls no container.init.
C4_AlreadyLoaded ==
  [][\A n \in RemoteNames :
       (/\ Len(browser'.promises) = Len(browser.promises) + 1
        /\ Last(browser'.promises).remoteName = n
        /\ browser.window[n] # 0)
       => (/\ Last(browser'.promises).state = "fulfilled"
           /\ Last(browser'.promises).value = browser.window[n]
           /\ browser'.head = browser.head
           /\ browser'.initCalls = browser.initCalls
           /\ browser'.window = browser.window)]_vars

\* a call found the container of an earlier script and resolved with it
C4_Witness ==
  \E p \in 1..Len(browser.promises) :
    /\ browser.promises[p].script = 0
    /\ browser.promises[p].state = "fulfilled"
    /\ browser.promises[p].value # 0
    /\ browser.promises[p].value = browser.window[browser.promises[p].remoteName]
    /\ Len(browser.head) < Len(browser.promises)

\* the scripts of remote n whose load event found the global defined
LoadedScripts(n) ==
  {s \in 1..Len(browser.head) :
     /\ browser.head[s].remoteName = n
     /\ browser.head[s].event = "load"
     /\ browser.head[s].container # 0}

C5_Outcome ==
  /\ \A p \in 1..Len(browser.promises) :
       LET promise == browser.promises[p]
           s == promise.script
       IN /\ promise.calls <= 1
          /\ (promise.state = "pending") = (promise.calls = 0)
          /\ s # 0 =>
               LET script == browser.head[s]
               IN /\ script.event = "none" => promise.state = "pending"
                  /\ (script.event = "load" /\ script.container # 0) =>
                       /\ promise.state = "fulfilled"
                       /\ promise.value = script.container
                  /\ (script.event = "load" /\ script.container = 0) =>
                       /\ promise.state = "rejected"
                       /\ promise.reason =
                            "Remote " \o promise.remoteName \o " not found"
                  /\ script.event = "error" =>
                       /\ promise.state = "rejected"
                       /\ promise.reason =
                            "Failed to load remote: " \o promise.remoteName
                              \o " from " \o promise.remoteUrl
  /\ \A n \in RemoteNames : browser.initCalls[n] = Cardinality(LoadedScripts(n))

C5_Settles ==
  \A p \in 1..MaxLoads :
    (p <= Len(browser.promises) /\ browser.promises[p].state = "pending")
      ~> (p <= Len(browser.promises) /\ browser.promises[p].state # "pending")

\* C5: a loadRemoteModule promise settles once, as the script's event says:
\* fulfilled with the container, container.init having been called, on load
\* with the global defined; rejected 'Remote <name> not found' on load
\* without the global; rejected 'Failed to load remote' on error.  Once the
\* script's event fires the promise is settled.
C5_SettlesOnce == []C5_Outcome /\ C5_Settles

\* one run in which all three outcomes have occurred
C5_Witness ==
  /\ \E p \in 1..Len(browser.promises) :
       /\ browser.promises[p].script # 0
       /\ browser.promises[p].state = "fulfilled"
  /\ \E p \in 1..Len(browser.promises) :
       /\ browser.promises[p].state = "rejected"
       /\ browser.head[browser.promises[p].script].event = "load"
  /\ \E p \in 1..Len(browser.promises) :
       /\ browser.promises[p].state = "rejected"
       /\ browser.head[browser.promises[p].script].event = "error"

(***************************************************************************)
(* AppRoutes: lazyLoadRemote.  A loader is the async function handed to    *)
(* React.lazy; React calls it when the route's component renders first and *)
(* keeps the promise it returns.  The webpack variant loads the remote     *)
(* entry through loadRemoteModule and asks the container for the module;   *)
(* the Vite variant awaits a dynamic import.                               *)
(***************************************************************************)
Variants == {"webpack", "vite"}

NoComponent == [kind |-> "none", remoteName |-> "", modulePath |-> "", message |-> ""]

\* { default: module.default || module }
RemoteComponent(remoteName, modulePath) ==
  [kind |-> "remote", remoteName |-> remoteName, modulePath |-> modulePath,
   message |-> ""]

\* the component the catch block returns
ErrorComponent(remoteName, modulePath, message) ==
  [kind |-> "error", remoteName |-> remoteName, modulePath |-> modulePath,
   message |-> message]

NewLoader(variant, route) ==
  [variant |-> variant, remoteName |-> route.remoteName,
   modulePath |-> route.modulePath, url |-> route.url, path |-> route.path,
   pc |-> "created", promise |-> 0, marked |-> FALSE,
   settled |-> "pending", result |-> NoComponent, reason |-> "", thrown |-> ""]

\* a loader whose failures leave the async function as they are
Catch_Rethrow(l, message) ==
  [l EXCEPT !.pc = "done", !.settled = "rejected", !.reason = message]

\* catch (error) { return { default: () => <div>...</div> } }
Catch(l, message) ==
  [l EXCEPT !.pc = "done", !.settled = "fulfilled",
            !.result = ErrorComponent(l.remoteName, l.modulePath, message)]

Return(l) ==
  [l EXCEPT !.pc = "done", !.settled = "fulfilled",
            !.result = RemoteComponent(l.remoteName, l.modulePath)]

\* an error is thrown inside the try block
Throw(l, message) == Catch([l EXCEPT !.thrown = message], message)

\* getRemoteModule up to "await container.get(modulePath)"
getRemoteModule(b, l) ==
  IF b.window[l.remoteName] = 0
  THEN Throw(l, "Remote " \o l.remoteName \o " not initialized")
  ELSE [l EXCEPT !.pc = "awaitGet"]

\* the loader from its call to its first pending await
StartLoader(r, b, l) ==
  IF l.variant = "vite"
  THEN [registry |-> r, browser |-> b, loader |-> [l EXCEPT !.pc = "awaitImport"]]
  ELSE IF ~isLoaded(r, l.remoteName)
  THEN LET b1 == loadRemoteModule(b, l.remoteName, l.url)
       IN [registry |-> r, browser |-> b1,
           loader |-> [l EXCEPT !.pc = "awaitLoad", !.promise = Len(b1.promises)]]
  ELSE [registry |-> r, browser |-> b, loader |-> getRemoteModule(b, l)]

\* the loaders whose loadRemoteModule promise has settled resume, in the
\* order they started waiting
RECURSIVE ResumeLoaders(_, _, _, _)
ResumeLoaders(r, lz, b, k) ==
  IF k > Len(lz) THEN [registry |-> r, lazy |-> lz]
  ELSE IF lz[k].pc # "awaitLoad" \/ b.promises[lz[k].promise].state = "pending"
  THEN ResumeLoaders(r, lz, b, k + 1)
  ELSE IF b.promises[lz[k].promise].state = "fulfilled"
  THEN ResumeLoaders(markAsLoaded(r, lz[k].remoteName),
                     [lz EXCEPT ![k] = getRemoteModule(b, [@ EXCEPT !.marked = TRUE])],
                     b, k + 1)
  ELSE ResumeLoaders(r,
                     [lz EXCEPT ![k] = Throw(@, b.promises[lz[k].promise].reason)],
                     b, k + 1)

\* container.get(modulePath) and factory() have finished
AfterGet(l, ok) ==
  IF ok THEN Return(l)
  ELSE Throw(l, "Module " \o l.modulePath \o " does not exist in container")

\* the dynamic import has settled
AfterImport(r, l, ok) ==
  IF ok
  THEN [registry |-> markAsLoaded(r, l.remoteName),
        loader |-> Return([l EXCEPT !.marked = TRUE])]
  ELSE [registry |-> r,
        loader |-> Throw(l, "Failed to fetch dynamically imported module")]

(***************************************************************************)
(* The guide's shell: App runs setupApp once, then renders AppRoutes; the  *)
(* user opens routes, whose components load lazily.                        *)
(***************************************************************************)
RouteList(remoteName) ==
  IF remoteName = "authMfe"
  THEN <<[path |-> "/auth", modulePath |-> "SignIn"],
         [path |-> "/signup", modulePath |-> "SignUp"]>>
  ELSE <<[path |-> "/payments", modulePath |-> "PaymentApp"]>>

\* entries of microFrontends: without routes (invalid), with routes, with
\* routes and preload: true; or null
AppConfigs ==
  {MkConfig({"name", "remoteName", "url"} \cup opt,
            [Blank EXCEPT !.name = "MFE", !.remoteName = n, !.url = UrlOf(n),
                          !.routes = RouteList(n), !.preload = TRUE]) :
     opt \in {{}, {"routes"}, {"routes", "preload"}}, n \in RemoteNames}
  \cup {null}

\* the lists config.json holds: one entry per remote at most (setupApp on
\* lists that name a remote twice is the subject of SpecSetup)
AppConfigLists ==
  {configs \in SeqsUpTo(AppConfigs, MaxConfigs) :
     \A i, j \in 1..Len(configs) :
       (i # j /\ configs[i] # null /\ configs[j] # null)
         => configs[i].remoteName # configs[j].remoteName}

\* fetchMFEConfig handing a failed fetch on to setupApp as a broken entry
fetchMFEConfig_NoCatch(fetched) ==
  IF fetched.ok THEN fetched.microFrontends ELSE <<null>>

\* what fetchMFEConfig resolves with: the list of config.json, or [] when
\* fetch or response.json() failed
fetchMFEConfig(fetched) == IF fetched.ok THEN fetched.microFrontends ELSE <<>>

\* initialize setting appReady whatever setupApp returned
initialize_AlwaysReady(a, result) ==
  IF result.success THEN [a EXCEPT !.appReady = TRUE]
  ELSE [a EXCEPT !.appReady = TRUE, !.error = [message |-> result.error]]

\* initialize() after "await setupApp()"
initialize(a, result) ==
  IF result.success THEN [a EXCEPT !.appReady = TRUE]
  ELSE [a EXCEPT !.error = [message |-> result.error]]

\* if (error) ... ; if (!appReady) ...
Rendered(a) ==
  IF a.error # null /\ a.error.message # "" THEN "error"
  ELSE IF ~a.appReady THEN "loading"
  ELSE "routes"

\* the microtasks after a handler: preload tasks, lazy loaders, then the
\* return of setupApp into initialize
AppMicrotasks(r, b, su, lz, a) ==
  LET pre == Microtasks(r, b, su)
      res == ResumeLoaders(pre.registry, lz, b, 1)
  IN [registry |-> res.registry, browser |-> b, setup |-> pre.setup,
      lazy |-> res.lazy,
      app |-> IF su.pc # "returned" /\ pre.setup.pc = "returned"
              THEN initialize(a, pre.setup.result) ELSE a]

InitApp ==
  /\ IdleRegistry
  /\ NotValidating
  /\ browser = FreshPage
  /\ setup = [NoSetup EXCEPT !.pc = "fetching"]
  /\ IdleBus
  /\ lazy = <<>>
  /\ \E v \in Variants :
       app = [appReady |-> FALSE, error |-> null, variant |-> v,
              fetched |-> "pending", routes |-> <<>>]
  /\ page = LoadedAt("/")
  /\ IdleUi

\* fetch('/config.json') settles; setupApp runs to its first pending await
FetchSettles(fetched) ==
  /\ setup.pc = "fetching"
  /\ LET su == [setup EXCEPT !.mfeConfigs = fetchMFEConfig(fetched)]
         body == setupApp(registry, browser, su)
         ret == body.setup.pc = "returned"
         a == IF ret THEN initialize(app, body.setup.result) ELSE app
     IN /\ registry' = body.registry
        /\ browser' = body.browser
        /\ setup' = body.setup
        /\ app' = [a EXCEPT !.fetched = IF fetched.ok THEN "ok" ELSE "failed",
                            !.routes = IF Rendered(a) = "routes"
                                       THEN getAllRoutes(body.registry) ELSE <<>>]
  /\ UNCHANGED <<lastCall, everRegistered, validation, busVars, lazy, page, uiVars>>

\* after a handler's microtasks; AppRoutes renders when App turns ready
AppStep(after) ==
  /\ registry' = after.registry
  /\ browser' = after.browser
  /\ setup' = after.setup
  /\ lazy' = after.lazy
  /\ app' = [after.app EXCEPT
               !.routes = IF Rendered(app) # "routes" /\ Rendered(after.app) = "routes"
                          THEN getAllRoutes(after.registry) ELSE @]
  /\ UNCHANGED <<lastCall, everRegistered, validation, busVars, page, uiVars>>

AppScriptLoad(s, defines) ==
  /\ browser.head[s].event = "none"
  /\ AppStep(AppMicrotasks(registry, onload(Evaluate(browser, s, defines), s),
                           setup, lazy, app))

AppScriptError(s) ==
  /\ browser.head[s].event = "none"
  /\ AppStep(AppMicrotasks(registry, onerror(browser, s), setup, lazy, app))

\* the user opens route i for the first time: its component renders and
\* React.lazy calls the loader
OpenRoute(i) ==
  /\ Rendered(app) = "routes"
  /\ \A k \in 1..Len(lazy) : lazy[k].path # app.routes[i].path
  /\ LET started == StartLoader(registry, browser, NewLoader(app.variant, app.routes[i]))
     IN AppStep(AppMicrotasks(started.registry, started.browser, setup,
                              Append(lazy, started.loader), app))

\* container.get(modulePath) of loader k settles
GetSettles(k, ok) ==
  /\ lazy[k].pc = "awaitGet"
  /\ lazy' = [lazy EXCEPT ![k] = AfterGet(@, ok)]
  /\ UNCHANGED <<registryVars, validation, browser, setup, busVars, app, page, uiVars>>

\* the dynamic import of loader k settles
ImportSettles(k, ok) ==
  /\ lazy[k].pc = "awaitImport"
  /\ LET after == AfterImport(registry, lazy[k], ok)
     IN /\ registry' = after.registry
        /\ lazy' = [lazy EXCEPT ![k] = after.loader]
  /\ UNCHANGED <<lastCall, everRegistered, validation, browser, setup, busVars,
                 app, page, uiVars>>

NextApp ==
  \/ \E configs \in AppConfigLists :
       FetchSettles([ok |-> TRUE, microFrontends |-> configs])
  \/ FetchSettles([ok |-> FALSE, microFrontends |-> <<>>])
  \/ \E s \in 1..Len(browser.head), defines \in BOOLEAN : AppScriptLoad(s, defines)
  \/ \E s \in 1..Len(browser.head) : AppScriptError(s)
  \/ \E i \in 1..Len(app.routes) : OpenRoute(i)
  \/ \E k \in 1..Len(lazy), ok \in BOOLEAN : GetSettles(k, ok)
  \/ \E k \in 1..Len(lazy), ok \in BOOLEAN : ImportSettles(k, ok)

SpecApp == InitApp /\ [][NextApp]_vars

\* the loads that succeeded for remote n: a loadRemoteModule promise that
\* was fulfilled, or a dynamic import that resolved
LoadSucceeded(n) ==
  \/ \E p \in 1..Len(browser.promises) :
       browser.promises[p].remoteName = n /\ browser.promises[p].state = "fulfilled"
  \/ \E k \in 1..Len(lazy) :
       lazy[k].remoteName = n /\ lazy[k].variant = "vite" /\ lazy[k].marked

\* C12: a loader built by lazyLoadRemote never rejects; when loadRemoteModule,
\* getRemoteModule or the dynamic import failed it resolved to the error
\* component with the remote name, the module path and the message of the
\* error; a failed load marks nothing, so that a remote is marked as loaded
\* only after a load of it succeeded.
C12_LoaderNeverRejects ==
  /\ \A k \in 1..Len(lazy) :
       /\ lazy[k].settled # "rejected"
       /\ lazy[k].thrown # "" =>
            /\ lazy[k].settled = "fulfilled"
            /\ lazy[k].result =
                 ErrorComponent(lazy[k].remoteName, lazy[k].modulePath, lazy[k].thrown)
       /\ (lazy[k].promise # 0 /\ browser.promises[lazy[k].promise].state = "rejected") =>
            /\ lazy[k].thrown = browser.promises[lazy[k].promise].reason
            /\ ~lazy[k].marked
       /\ (lazy[k].variant = "vite" /\ lazy[k].thrown # "") => ~lazy[k].marked
  /\ \A n \in RemoteNames : isLoaded(registry, n) => LoadSucceeded(n)

\* one loader's loadRemoteModule failed and its remote is not marked as
\* loaded; another loader's getRemoteModule failed after its remote loaded
C12_Witness ==
  \E k, j \in 1..Len(lazy) :
    /\ lazy[k].promise # 0
    /\ browser.promises[lazy[k].promise].state = "rejected"
    /\ lazy[k].result.kind = "error"
    /\ ~isLoaded(registry, lazy[k].remoteName)
    /\ lazy[j].marked
    /\ lazy[j].result.kind = "error"
    /\ isLoaded(registry, lazy[j].remoteName)

(***************************************************************************)
(* The shell container in use: the user clicks navbar links, opens paths   *)
(* through the address bar (which loads the document anew), and the import *)
(* of authMfe/SignIn settles.                                              *)
(***************************************************************************)
InitShell ==
  /\ IdleRegistry
  /\ NotValidating
  /\ browser = FreshPage
  /\ setup = NoSetup
  /\ IdleBus
  /\ lazy = <<>>
  /\ app = [appReady |-> FALSE, error |-> null]
  /\ page = LoadedAt("/")
  /\ IdleUi

\* history.pushState: the entries behind the current one, the oldest
\* dropped beyond MaxHistory
Push(stack, location) ==
  IF Len(stack) < MaxHistory THEN Append(stack, location)
  ELSE Append(Tail(stack), location)

\* <Link to={to}>: client-side navigation
ClickLink(to) ==
  /\ ~page.crashed
  /\ page.layout
  /\ page' = Render([page EXCEPT !.location = to,
                                 !.stack = Push(@, page.location)])
  /\ UNCHANGED <<registryVars, validation, browser, setup, busVars, lazy, app, uiVars>>

\* the Back button within the document: popstate, the router renders the
\* entry's location (nothing listens once the root is unmounted)
Back ==
  /\ page.stack # <<>>
  /\ page' = Render([page EXCEPT !.location = page.stack[Len(page.stack)],
                                 !.stack = SubSeq(@, 1, Len(@) - 1)])
  /\ UNCHANGED <<registryVars, validation, browser, setup, busVars, lazy, app, uiVars>>

\* the user opens path in the address bar: the document loads anew (the
\* history entries of earlier documents are left out: going back to one
\* loads its path anew, as OpenPath does)
OpenPath(path) ==
  /\ page' = [LoadedAt(path) EXCEPT !.linksOnly = FALSE]
  /\ UNCHANGED <<registryVars, validation, browser, setup, busVars, lazy, app, uiVars>>

\* import('authMfe/SignIn') settles; React renders the suspended subtree again
ImportSignIn(ok) ==
  /\ page.import = "pending"
  /\ LET settled == [page EXCEPT !.import = IF ok THEN "resolved" ELSE "rejected"]
     IN page' = IF MatchRoute(page.location) = "AuthPage" THEN Render(settled)
                ELSE settled
  /\ UNCHANGED <<registryVars, validation, browser, setup, busVars, lazy, app, uiVars>>

NextShell ==
  \/ \E to \in NavLinks : ClickLink(to)
  \/ \E path \in Paths : OpenPath(path)
  \/ \E ok \in BOOLEAN : ImportSignIn(ok)
  \/ Back

SpecShell == InitShell /\ [][NextShell]_vars

\* C13: at /auth the spinner is shown while the import of authMfe/SignIn is
\* pending, the import has been started, and SignIn is on screen only when
\* the import has resolved.
C13_SpinnerUntilResolved ==
  /\ page.shown = "SignIn" => page.import = "resolved"
  /\ (MatchRoute(page.location) = "AuthPage" /\ ~page.crashed) =>
       /\ page.import # "idle"
       /\ page.import = "pending" => page.shown = "Spinner"
       /\ page.shown \in {"Spinner", "SignIn"}

\* SignIn is on screen at /auth
C13_Witness ==
  /\ page.location = "/auth"
  /\ page.import = "resolved"
  /\ page.shown = "SignIn"
  /\ page.layout

\* C14: every navbar link targets a path with a route of its own; while the
\* user has moved through navbar links only (and Back), the 404 alert is
\* never shown; at every location that is none of the five routed paths the
\* 404 alert is shown inside the Layout.
C14_NavLinksRouted ==
  /\ \A to \in NavLinks : MatchRoute(to) # "NotFound"
  /\ \A to, other \in NavLinks : to # other => MatchRoute(to) # MatchRoute(other)
  /\ page.linksOnly => page.shown # "NotFound"
  /\ (~page.crashed /\ Normalize(page.location) \notin NavLinks) =>
       /\ page.shown = "NotFound"
       /\ page.layout

\* the user went through navbar links to /profile, which shows its page
C14_Witness ==
  /\ page.linksOnly
  /\ Len(page.stack) = MaxHistory
  /\ page.location = "/profile"
  /\ page.shown = "Profile"
  /\ \E i \in 1..Len(page.stack) : page.stack[i] = "/auth"

\* C17: when the import of authMfe/SignIn has rejected, the /auth page shows
\* a fallback in place of SignIn and the rest of the shell (the Layout with
\* its navbar) stays on screen.
C17_ImportFailureContained ==
  (page.import = "rejected" /\ MatchRoute(page.location) = "AuthPage") =>
    /\ ~page.crashed
    /\ page.layout
    /\ page.shown \in {"Spinner", "Fallback"}

\* what App has on screen and in its state, against the progress of setupApp
C15_States ==
  /\ setup.pc # "returned" => Rendered(app) = "loading"
  /\ setup.pc = "returned" => Rendered(app) \in {"routes", "error"}
  /\ ~(app.appReady /\ app.error # null)
  /\ Rendered(app) = "error" <=> (setup.pc = "returned" /\ ~setup.result.success)
  /\ Rendered(app) = "routes" =>
       /\ \A i \in Registrable(setup.mfeConfigs) :
            MapHas(registry.registeredMFEs, setup.mfeConfigs[i].remoteName)
       /\ app.routes = getAllRoutes(registry)
  /\ Rendered(app) # "routes" => app.routes = <<>> /\ lazy = <<>>

\* C15: App shows the loading screen until setupApp has completed, then
\* either the routes or the error screen and never both; the MFE routes are
\* rendered only when every valid MFE is registered; the ready state and
\* the error state are never left.
C15_AppLifecycle ==
  /\ []C15_States
  /\ [][/\ Rendered(app) = "routes" => Rendered(app') = "routes"
        /\ Rendered(app) = "error" => Rendered(app') = "error"
        /\ app.appReady => app'.appReady
        /\ app.error # null => app'.error = app.error]_vars

\* App is ready with the routes of the valid MFE after its preload failed,
\* the other entry of config.json being invalid
C15_Witness ==
  /\ Rendered(app) = "routes"
  /\ Len(app.routes) = 2
  /\ setup.tasks # <<>>
  /\ setup.tasks[1].state = "failed"
  /\ \E i \in 1..Len(setup.mfeConfigs) : ~validateMFEConfig(setup.mfeConfigs[i])

\* C16: when fetching or parsing /config.json failed, setupApp has returned
\* success: true with no MFE registered and App is ready, not in the error
\* state.
C16_FetchFailureReady ==
  app.fetched = "failed" =>
    /\ setup.mfeConfigs = <<>>
    /\ setup.pc = "returned"
    /\ setup.result.success
    /\ setup.result.registeredMFEs = <<>>
    /\ registry.registeredMFEs = <<>>
    /\ app.appReady
    /\ app.error = null
    /\ Rendered(app) = "routes"

\* the fetch failed and App shows its (empty) routes
C16_Witness ==
  /\ app.fetched = "failed"
  /\ Rendered(app) = "routes"
  /\ app.routes = <<>>

\* the script elements injected for remote n
ScriptsOf(n) == {s \in 1..Len(browser.head) : browser.head[s].remoteName = n}

\* C18: however the load requests of a remote interleave, at most one
\* script element is injected for it and container.init is called at most
\* once.
C18_OneScriptPerRemote ==
  \A n \in RemoteNames :
    /\ Cardinality(ScriptsOf(n)) <= 1
    /\ browser.initCalls[n] <= 1

\* C19: for every registered remote name n, isLoaded(n) equals the loaded
\* flag of the descriptor get(n) returns and of n's entry in getAll().
C19_LoadedFlagsAgree ==
  \A n \in RemoteNames :
    get(registry, n) # null =>
      /\ get(registry, n).loaded = isLoaded(registry, n)
      /\ \A i \in 1..Len(getAll(registry)) :
           getAll(registry)[i].name = n =>
             getAll(registry)[i].loaded = isLoaded(registry, n)

\* C20: markAsLoaded(n) for a name n that is not registered leaves the
\* registry as it was (no descriptor, isLoaded(n) false); in every state
\* isLoaded(n) implies that n is registered.
C20_MarkUnregistered ==
  /\ [](\A n \in RemoteNames : isLoaded(registry, n) => get(registry, n) # null)
  /\ [][\A n \in RemoteNames :
          (/\ lastCall' = [op |-> "markAsLoaded", remoteName |-> n]
           /\ get(registry, n) = null)
          => (/\ registry' = registry
              /\ get(registry', n) = null
              /\ ~isLoaded(registry', n))]_vars

\* markAsLoaded was called last for a name that is not registered, while
\* another remote is registered and loaded
C20_Witness ==
  /\ lastCall.op = "markAsLoaded"
  /\ get(registry, lastCall.remoteName) = null
  /\ ~isLoaded(registry, lastCall.remoteName)
  /\ \E n \in RemoteNames : get(registry, n) # null /\ isLoaded(registry, n)

\* the names of getAll(), in its order
NamesOf(r) == LET all == getAll(r) IN [i \in 1..Len(all) |-> all[i].name]

\* C21: the registry holds one descriptor per remote name at most;
\* registering a config whose remoteName is registered already replaces the
\* descriptor by the one of the new config and changes neither the number of
\* entries nor the order of the names in getAll().
C21_OneDescriptorPerName ==
  /\ [](\A i, j \in 1..Len(registry.registeredMFEs) :
          registry.registeredMFEs[i].key = registry.registeredMFEs[j].key => i = j)
  /\ [][(/\ lastCall'.op = "register"
          /\ registry' # registry
          /\ get(registry, lastCall'.config.remoteName) # null)
         => (/\ get(registry', lastCall'.config.remoteName)
                  = RegisteredMFE(lastCall'.config)
             /\ Len(NamesOf(registry')) = Len(NamesOf(registry))
             /\ NamesOf(registry') = NamesOf(registry))]_vars

\* the remote registered first was registered again, with two routes,
\* after a second remote was registered
C21_Witness ==
  /\ lastCall.op = "register"
  /\ Len(registry.registeredMFEs) = 2
  /\ registry.registeredMFEs[1].key = lastCall.config.remoteName
  /\ get(registry, lastCall.config.remoteName) = RegisteredMFE(lastCall.config)
  /\ Len(lastCall.config.routes) = 2

\* C22: whenever a preload has been started every valid MFE is registered;
\* when setupApp has returned its result, and so when App is ready, every
\* preload it started has settled, by success or by failure.
C22_PreloadsSettledAtReturn ==
  /\ setup.tasks # <<>> =>
       \A i \in Registrable(setup.mfeConfigs) :
         MapHas(registry.registeredMFEs, setup.mfeConfigs[i].remoteName)
  /\ (setup.pc = "returned" \/ app.appReady \/ app.error # null) =>
       \A t \in 1..Len(setup.tasks) :
         /\ setup.tasks[t].state \in {"loaded", "failed"}
         /\ browser.promises[setup.tasks[t].promise].state # "pending"
         /\ browser.promises[setup.tasks[t].promise].script # 0 =>
              browser.head[browser.promises[setup.tasks[t].promise].script].event
                # "none"
  /\ app.appReady => setup.pc = "returned"

\* App is ready after two preloads, one that succeeded and one that failed
C22_Witness ==
  /\ app.appReady
  /\ Len(setup.tasks) = 2
  /\ setup.tasks[1].state = "failed"
  /\ setup.tasks[2].state = "loaded"

(***************************************************************************)
(* MFEComponentLoader.  The effect runs loadComponent at mount and again   *)
(* whenever componentName or moduleName changes; a call that is waiting    *)
(* keeps running when the props change.  A moduleName that is not given    *)
(* (null) is the empty string here: the code tests it with "!".            *)
(***************************************************************************)
ComponentNames == {"./Header", "./PaymentWidget"}
NoModuleName == ""
ModuleNames == {NoModuleName, "paymentsMfe"}

NoComponentLoaded == [remote |-> "", component |-> ""]

\* entries of config.json with the components each remote exposes
WidgetConfigs ==
  {MkConfig({"name", "remoteName", "url", "routes", "exposedComponents"},
            [Blank EXCEPT !.name = "MFE", !.remoteName = n, !.url = UrlOf(n),
                          !.routes = RouteList(n), !.exposedComponents = es]) :
     n \in RemoteNames,
     es \in {<<>>,
             <<[name |-> "Header", modulePath |-> "./Header"]>>,
             <<[name |-> "Header", modulePath |-> "./Header"],
               [name |-> "PaymentWidget", modulePath |-> "./PaymentWidget"]>>}}

\* mfe.exposedComponents?.find(c => c.modulePath === componentName)
Exposes(mfe, componentName) ==
  \E i \in 1..Len(mfe.exposedComponents) :
    mfe.exposedComponents[i].modulePath = componentName

\* the search that takes the last MFE exposing the component
RECURSIVE Discover_Last(_, _)
Discover_Last(allMFEs, componentName) ==
  IF allMFEs = <<>> THEN NoModuleName
  ELSE IF Exposes(allMFEs[Len(allMFEs)], componentName)
  THEN allMFEs[Len(allMFEs)].name
  ELSE Discover_Last(SubSeq(allMFEs, 1, Len(allMFEs) - 1), componentName)

\* for (const mfe of allMFEs) { if (exposedComponent) { targetRemote = mfe.name; break } }
RECURSIVE Discover(_, _)
Discover(allMFEs, componentName) ==
  IF allMFEs = <<>> THEN NoModuleName
  ELSE IF Exposes(Head(allMFEs), componentName) THEN Head(allMFEs).name
  ELSE Discover(Tail(allMFEs), componentName)

\* the catch block of call k: setError(err); setLoading(false)
FailRun(w, k, message) ==
  [w EXCEPT !.error = message, !.loading = FALSE,
            !.runs[k].pc = "done", !.runs[k].thrown = message]

\* getRemoteModule(targetRemote, componentName) of call k, up to its await
GetComponent(b, w, k) ==
  IF b.window[w.runs[k].targetRemote] = 0
  THEN FailRun(w, k, "Remote " \o w.runs[k].targetRemote \o " not initialized")
  ELSE [w EXCEPT !.runs[k].pc = "awaitGet"]

\* loadComponent from its call to its first pending await
loadComponent(r, b, w, componentName, moduleName) ==
  LET targetRemote == IF moduleName # NoModuleName THEN moduleName
                      ELSE Discover(getAll(r), componentName)
      k == Len(w.runs) + 1
      w1 == [w EXCEPT !.loading = TRUE, !.error = "",
                      !.runs = Append(@, [componentName |-> componentName,
                                          moduleName |-> moduleName,
                                          targetRemote |-> targetRemote,
                                          pc |-> "started", promise |-> 0,
                                          thrown |-> "", marked |-> FALSE])]
  IN IF targetRemote = NoModuleName
     THEN [registry |-> r, browser |-> b,
           widget |-> FailRun(w1, k, "Component " \o componentName
                                       \o " not found in any MFE")]
     ELSE IF get(r, targetRemote) = null
     THEN [registry |-> r, browser |-> b,
           widget |-> FailRun(w1, k, "MFE " \o targetRemote \o " not registered")]
     ELSE IF ~isLoaded(r, targetRemote)
     THEN LET b1 == loadRemoteModule(b, targetRemote, get(r, targetRemote).url)
          IN [registry |-> r, browser |-> b1,
              widget |-> [w1 EXCEPT !.runs[k].pc = "awaitLoad",
                                    !.runs[k].promise = Len(b1.promises)]]
     ELSE [registry |-> r, browser |-> b, widget |-> GetComponent(b, w1, k)]

\* the calls whose loadRemoteModule promise has settled resume
RECURSIVE ResumeRuns(_, _, _, _)
ResumeRuns(r, w, b, k) ==
  IF k > Len(w.runs) THEN [registry |-> r, widget |-> w]
  ELSE IF w.runs[k].pc # "awaitLoad" \/ b.promises[w.runs[k].promise].state = "pending"
  THEN ResumeRuns(r, w, b, k + 1)
  ELSE IF b.promises[w.runs[k].promise].state = "fulfilled"
  THEN ResumeRuns(markAsLoaded(r, w.runs[k].targetRemote),
                  GetComponent(b, [w EXCEPT !.runs[k].marked = TRUE], k), b, k + 1)
  ELSE ResumeRuns(r, FailRun(w, k, b.promises[w.runs[k].promise].reason), b, k + 1)

\* call k after await getRemoteModule: setComponent, setLoading(false)
AfterGetComponent(w, k, ok) ==
  IF ok
  THEN [w EXCEPT !.Component = [remote |-> w.runs[k].targetRemote,
                                component |-> w.runs[k].componentName],
                 !.loading = FALSE, !.runs[k].pc = "done"]
  ELSE FailRun(w, k, "Module " \o w.runs[k].componentName
                       \o " does not exist in container")

\* what the loader renders
Shown(w) ==
  IF w.loading THEN "fallback"
  ELSE IF w.error # "" THEN "error"
  ELSE IF w.Component = NoComponentLoaded THEN "null"
  ELSE "component"

(***************************************************************************)
(* One MFEComponentLoader on a page whose registry setupApp has filled.    *)
(***************************************************************************)
WidgetConfigLists ==
  {configs \in SeqsUpTo(WidgetConfigs, MaxConfigs) :
     \A i, j \in 1..Len(configs) :
       i # j => configs[i].remoteName # configs[j].remoteName}

InitComponent ==
  /\ \E configs \in WidgetConfigLists :
       registry = RegisterAll(EmptyRegistry, configs, Indices(configs))
  /\ lastCall = NoCall
  /\ everRegistered = {}
  /\ NotValidating
  /\ browser = FreshPage
  /\ setup = NoSetup
  /\ IdleBus
  /\ IdleShell
  /\ widget = [mounted |-> FALSE]
  /\ notifications = [list |-> <<>>, now |-> 0]

\* after a handler: the waiting calls resume
ComponentStep(r, b, w) ==
  LET after == ResumeRuns(r, w, b, 1)
  IN /\ registry' = after.registry
     /\ browser' = b
     /\ widget' = after.widget
     /\ UNCHANGED <<lastCall, everRegistered, validation, setup, busVars, shellVars,
                    notifications>>

\* first render and effect
Mount(componentName, moduleName) ==
  /\ ~widget.mounted
  /\ LET w == [mounted |-> TRUE, componentName |-> componentName,
               moduleName |-> moduleName, Component |-> NoComponentLoaded,
               error |-> "", loading |-> TRUE, runs |-> <<>>]
         started == loadComponent(registry, browser, w, componentName, moduleName)
     IN ComponentStep(started.registry, started.browser, started.widget)

\* the parent renders the loader with other props; the effect runs again
ChangeProps(componentName, moduleName) ==
  /\ widget.mounted
  /\ Len(widget.runs) < MaxRuns
  /\ <<componentName, moduleName>> # <<widget.componentName, widget.moduleName>>
  /\ LET w == [widget EXCEPT !.componentName = componentName,
                             !.moduleName = moduleName]
         started == loadComponent(registry, browser, w, componentName, moduleName)
     IN ComponentStep(started.registry, started.browser, started.widget)

ComponentScriptLoad(s, defines) ==
  /\ browser.head[s].event = "none"
  /\ ComponentStep(registry, onload(Evaluate(browser, s, defines), s), widget)

ComponentScriptError(s) ==
  /\ browser.head[s].event = "none"
  /\ ComponentStep(registry, onerror(browser, s), widget)

\* container.get(componentName) of call k settles
ComponentGetSettles(k, ok) ==
  /\ widget.runs[k].pc = "awaitGet"
  /\ widget' = AfterGetComponent(widget, k, ok)
  /\ UNCHANGED <<registryVars, validation, browser, setup, busVars, shellVars,
                 notifications>>

NextComponent ==
  \/ \E c \in ComponentNames, m \in ModuleNames : Mount(c, m)
  \/ \E c \in ComponentNames, m \in ModuleNames : ChangeProps(c, m)
  \/ \E s \in 1..Len(browser.head), defines \in BOOLEAN : ComponentScriptLoad(s, defines)
  \/ \E s \in 1..Len(browser.head) : ComponentScriptError(s)
  \/ \E k \in 1..(IF widget.mounted THEN Len(widget.runs) ELSE 0), ok \in BOOLEAN :
       ComponentGetSettles(k, ok)

SpecComponent == InitComponent /\ [][NextComponent]_vars

NotInitialized(n) == "Remote " \o n \o " not initialized"

ExposingAt(r, componentName) ==
  {i \in 1..Len(getAll(r)) : Exposes(getAll(r)[i], componentName)}

\* C24: a loadComponent call without moduleName targets the first MFE in
\* registration order that exposes componentName; when none does it ends
\* with the error 'Component ... not found in any MFE', and when the given
\* moduleName is not registered with 'MFE ... not registered', in both
\* cases with loading = false and no remote load started.
C24_Discovery ==
  [][(widget'.mounted /\ widget' # widget
      /\ Len(widget'.runs) = (IF widget.mounted THEN Len(widget.runs) ELSE 0) + 1)
     => LET run == widget'.runs[Len(widget'.runs)]
            at == ExposingAt(registry, run.componentName)
        IN /\ (run.moduleName = NoModuleName /\ at # {}) =>
                /\ run.targetRemote \in RemoteNames
                /\ \E i \in at : /\ getAll(registry)[i].name = run.targetRemote
                                 /\ \A j \in at : i <= j
           /\ (run.moduleName = NoModuleName /\ at = {}) =>
                /\ widget'.error = "Component " \o run.componentName
                                     \o " not found in any MFE"
                /\ ~widget'.loading
                /\ run.pc = "done"
                /\ browser' = browser
                /\ registry' = registry
           /\ (run.moduleName # NoModuleName /\ get(registry, run.moduleName) = null) =>
                /\ widget'.error = "MFE " \o run.moduleName \o " not registered"
                /\ ~widget'.loading
                /\ run.pc = "done"
                /\ browser' = browser
                /\ registry' = registry]_vars

\* the second call, without moduleName, went to the first of two MFEs that
\* expose the component
C24_Witness ==
  /\ widget.mounted
  /\ Len(widget.runs) = 2
  /\ widget.runs[2].moduleName = NoModuleName
  /\ Cardinality(ExposingAt(registry, widget.runs[2].componentName)) = 2
  /\ widget.runs[2].targetRemote = getAll(registry)[1].name
  /\ widget.runs[2].pc = "awaitLoad"

\* C25: once every loadComponent call has finished, the loader shows the
\* outcome of the call made for the latest props: its component, or its
\* error.
C25_LatestPropsWin ==
  (/\ widget.mounted
   /\ \A k \in 1..Len(widget.runs) : widget.runs[k].pc = "done")
  => LET last == widget.runs[Len(widget.runs)]
     IN /\ last.componentName = widget.componentName
        /\ last.moduleName = widget.moduleName
        /\ IF last.thrown # ""
           THEN Shown(widget) = "error" /\ widget.error = last.thrown
           ELSE /\ Shown(widget) = "component"
                /\ widget.Component = [remote |-> last.targetRemote,
                                       component |-> last.componentName]

\* the positions of callback in an emit's calls
InvocationsOf(calls, callback) ==
  {i \in 1..Len(calls) : calls[i].callback = callback}

\* C26: emit invokes every callback subscribed to eventName when the emit
\* starts exactly once (as often as it is subscribed), also when a callback
\* unsubscribes during the emit.
C26_EmitSnapshot ==
  busCall.op = "emit" =>
    \A cb \in Callbacks :
      Cardinality(InvocationsOf(busCall.calls, cb))
        = Cardinality({j \in 1..Len(busCall.before) : busCall.before[j] = cb})

\* C27: a call of an unsubscribe function completes without throwing in
\* every state of the bus, also after off(eventName) or clear() removed the
\* event's listeners.
C27_UnsubscribeSafe ==
  busCall.op = "unsubscribe" => ~busCall.threw

\* C28: a call of an unsubscribe function removes one listener at most, and
\* a second call of the same unsubscribe function removes nothing.
C28_UnsubscribeIdempotent ==
  busCall.op = "unsubscribe" =>
    /\ busCall.removed \in {0, 1}
    /\ busCall.calledBefore => busCall.removed = 0

(***************************************************************************)
(* GlobalContextProvider: the notifications array.  Date.now() is the      *)
(* clock of the model; it moves between calls, or does not.                *)
(***************************************************************************)
NotificationTexts == {"Payment received", "Order shipped"}

\* setNotifications(prev => [...prev, { ...notification, id: Date.now() }])
addNotification(ns, notification) ==
  [ns EXCEPT !.list = Append(@, [message |-> notification, id |-> ns.now])]

\* setNotifications(prev => prev.filter(n => n.id !== id))
removeNotification(ns, id) ==
  [ns EXCEPT !.list = SelectSeq(@, LAMBDA n : n.id # id)]

InitNotifications ==
  /\ IdleRegistry
  /\ NotValidating
  /\ browser = FreshPage
  /\ setup = NoSetup
  /\ IdleBus
  /\ IdleShell
  /\ IdleUi

AddNotification(notification) ==
  /\ Len(notifications.list) < MaxNotifications
  /\ notifications' = addNotification(notifications, notification)
  /\ UNCHANGED <<registryVars, validation, browser, setup, busVars, shellVars, widget>>

RemoveNotification(id) ==
  /\ notifications' = removeNotification(notifications, id)
  /\ UNCHANGED <<registryVars, validation, browser, setup, busVars, shellVars, widget>>

\* a millisecond passes
Tick ==
  /\ notifications.now < MaxClock
  /\ notifications' = [notifications EXCEPT !.now = @ + 1]
  /\ UNCHANGED <<registryVars, validation, browser, setup, busVars, shellVars, widget>>

NextNotifications ==
  \/ \E notification \in NotificationTexts : AddNotification(notification)
  \/ \E id \in 0..MaxClock : RemoveNotification(id)
  \/ Tick

SpecNotifications == InitNotifications /\ [][NextNotifications]_vars

\* C29: the notifications held have distinct ids, and a removal takes
\* exactly one notification out of the array.
C29_DistinctIds ==
  /\ [](\A i, j \in 1..Len(notifications.list) :
          notifications.list[i].id = notifications.list[j].id => i = j)
  /\ [][Len(notifications'.list) < Len(notifications.list)
        => Len(notifications'.list) = Len(notifications.list) - 1]_vars

\* C30: when setupApp has returned success: false, the registry and the
\* page are as they were before the call: nothing registered, nothing
\* marked as loaded, no script appended and no load promise made.
C30_FailureLeavesRegistry ==
  (setup.pc = "returned" /\ ~setup.result.success) =>
    /\ registry = EmptyRegistry
    /\ browser = FreshPage
    /\ setup.registered = <<>>
    /\ setup.tasks = <<>>

\* setupApp failed on a list whose first entry is valid and to be preloaded
C30_Witness ==
  IF setup.pc = "returned" /\ Len(setup.mfeConfigs) = 2
  THEN IF setup.mfeConfigs[1] = null THEN FALSE
       ELSE /\ ~setup.result.success
            /\ validateMFEConfig(setup.mfeConfigs[1])
            /\ isEnabled(setup.mfeConfigs[1])
            /\ isCritical(setup.mfeConfigs[1])
  ELSE FALSE

====
